---- MODULE Spec2Model ----
(***************************************************************************)
(* youtube-reader: provider resolution, the fallback executor, the         *)
(* providers' fetch, the transcript extractor, the subtitle parsers and    *)
(* extractVideoId.                                                         *)
(*                                                                         *)
(* Spec follows one run of main() (src/src/index.ts): the provider chain   *)
(* is resolved once from the options, the process environment and the      *)
(* tools on the host, then fetchTranscript runs the chain for each video   *)
(* in input order, and the run ends with the output written or with        *)
(* main().catch setting exit code 1.  SpecFetch follows one call of a      *)
(* provider's fetch step by step.  SpecExtract, SpecParse and SpecVideoId  *)
(* apply extractTranscriptItems, the subtitle parsers and extractVideoId   *)
(* to inputs drawn from bounded sets.                                      *)
(*                                                                         *)
(* A string whose content the code inspects is a sequence of tokens, each  *)
(* a literal piece of its text.  An optional value is a sequence of length *)
(* at most one: <<>> is undefined or null.                                 *)
(***************************************************************************)
EXTENDS Integers, Sequences, FiniteSets, TLC

\* Bounds of the model.
MaxVideos == 2
MaxHostChanges == 1
MaxEntries == 2
MaxCues == 5

VARIABLES
    options,      \* program.opts(): token, provider, fallback
    env,          \* process.env: YOUTUBE_TRANSCRIPT_API_TOKEN, OPENAI_API_KEY
    host,         \* executables on PATH, as `which` and `--help` see them
    hostChanges,  \* number of installs/uninstalls so far
    ids,          \* the video ids of the run, in input order
    pc,           \* position of main()
    resolved,     \* locals of resolveProviders: token, ytdlpAvailable, whisperBackend
    probedHost,   \* the host as it was when resolveProviders probed it
    detectCalls,  \* calls of detectWhisper() so far
    providers,    \* the provider chain resolveProviders returned
    warnings,     \* the warnings resolveProviders returned
    vid,          \* index in ids of the video being fetched (0: none yet)
    idx,          \* fetchTranscript: position in the chain of the loop
    errors,       \* fetchTranscript: the attempt log
    availCalls,   \* per chain position: calls of available() for this video
    fetchCalls,   \* per chain position: calls of fetch() for this video
    attempt,      \* per chain position: how the attempt ended for this video
    ret,          \* value fetchTranscript returned
    thrown,       \* error propagating to main().catch
    results,      \* main: results
    stderr,       \* lines written to process.stderr
    stdout,       \* what output() wrote
    exitCode      \* process.exitCode

\* One call of a provider's fetch(videoId), step by step.
VARIABLES
    self,         \* the provider whose fetch is running
    fpc,          \* position of fetch
    tempDir,      \* the scratch directory of the call: "none", "exists", "deleted"
    rmCalls,      \* calls of rm(tempDir) so far
    rawText,      \* local `text` of fetch before trimming (api: the response payload)
    completion,   \* how the try block completed, held while finally runs
    settled       \* what the promise fetch returned settled with

\* One application of a pure function of the library.
VARIABLES
    fn,           \* the function applied
    arg,          \* its argument
    out           \* its return value

mainVars == <<options, env, host, hostChanges, ids, pc, resolved, probedHost, detectCalls,
              providers, warnings,
              vid, idx, errors, availCalls, fetchCalls, attempt, ret, thrown,
              results, stderr, stdout, exitCode>>

fetchVars == <<self, fpc, tempDir, rmCalls, rawText, completion, settled>>

callVars == <<fn, arg, out>>

vars == <<mainVars, fetchVars, callVars>>

----------------------------------------------------------------------------
(* Values *)

None == [kind |-> "none"]
Null == [kind |-> "null"]
Unavailable == [kind |-> "unavailable"]
Pending == [kind |-> "pending"]

Error(message) == [kind |-> "error", message |-> message]

\* A call that has returned, with the value it returned.
Returned(value) == [kind |-> "returned", value |-> value]

TranscriptResult(text, source) == [kind |-> "result", text |-> text, source |-> source]

NoBackend == [type |-> "none", path |-> ""]

\* The white space of the strings of the model: \s.
WhiteSpace == {" ", "\n"}

\* String.prototype.trim on a sequence of characters.
RECURSIVE TrimStart(_)
TrimStart(s) == IF s # <<>> /\ Head(s) \in WhiteSpace THEN TrimStart(Tail(s)) ELSE s

RECURSIVE TrimEnd(_)
TrimEnd(s) ==
    IF s # <<>> /\ s[Len(s)] \in WhiteSpace THEN TrimEnd(SubSeq(s, 1, Len(s) - 1)) ELSE s

Trim(s) == TrimEnd(TrimStart(s))

\* value?.trim(): undefined stays undefined, which is as falsy as "".
OptTrim(o) == IF o = <<>> THEN <<>> ELSE Trim(o[1])

\* a || b on strings: the first operand unless it is falsy (empty).
OrElse(a, b) == IF a # <<>> THEN a ELSE b

resolveApiToken(cliValue, e) ==
    OrElse(OptTrim(cliValue), OrElse(OptTrim(e.YOUTUBE_TRANSCRIPT_API_TOKEN), <<>>))

----------------------------------------------------------------------------
(* Tool detection *)

commandExists(h, cmd) ==
    CASE cmd = "yt-dlp" -> h.ytdlp
      [] cmd = "whisper-cpp" -> h.whisperCpp
      [] cmd = "whisper" -> h.whisper # "absent"
      [] cmd = "mlx_whisper" -> h.mlx
      [] OTHER -> FALSE

hasYtdlp(h) == commandExists(h, "yt-dlp")

\* The order of the comment above detectWhisper: whisper.cpp, mlx-whisper,
\* whisper CLI, OpenAI API.
detectWhisper_mlxFirst(h, e) ==
    IF commandExists(h, "whisper-cpp")
    THEN [type |-> "whisper-cpp", path |-> "whisper-cpp"]
    ELSE IF commandExists(h, "mlx_whisper")
    THEN [type |-> "mlx-whisper", path |-> "mlx_whisper"]
    ELSE IF commandExists(h, "whisper")
    THEN IF h.whisper = "whisper.cpp"
         THEN [type |-> "whisper-cpp", path |-> "whisper"]
         ELSE [type |-> "whisper", path |-> "whisper"]
    ELSE IF e.OPENAI_API_KEY
    THEN [type |-> "openai-api", path |-> ""]
    ELSE NoBackend

detectWhisper(h, e) ==
    IF commandExists(h, "whisper-cpp")
    THEN [type |-> "whisper-cpp", path |-> "whisper-cpp"]
    ELSE IF commandExists(h, "whisper")
    THEN IF h.whisper = "whisper.cpp"
         THEN [type |-> "whisper-cpp", path |-> "whisper"]
         ELSE [type |-> "whisper", path |-> "whisper"]
    ELSE IF commandExists(h, "mlx_whisper")
    THEN [type |-> "mlx-whisper", path |-> "mlx_whisper"]
    ELSE IF e.OPENAI_API_KEY
    THEN [type |-> "openai-api", path |-> ""]
    ELSE NoBackend

----------------------------------------------------------------------------
(* Transcript extractor (normalize.ts) *)

\* JSON values as response.json() builds them; a response that is not JSON is
\* a string.  A missing key reads as undefined, which every test of the
\* extractor treats as it treats null (== null, ??, typeof).
JNull == [t |-> "null"]
JNum == [t |-> "number"]
JStr(s) == [t |-> "string", s |-> s]
JArr(a) == [t |-> "array", a |-> a]
JObj(o) == [t |-> "object", o |-> o]

\* obj[key]
Get(v, key) == IF key \in DOMAIN v.o THEN v.o[key] ELSE JNull

\* obj[k1] ?? obj[k2] ?? ...: the first value that is not nullish.
RECURSIVE Coalesce(_, _)
Coalesce(v, keys) ==
    IF keys = <<>> THEN JNull
    ELSE IF Get(v, Head(keys)) # JNull THEN Get(v, Head(keys))
    ELSE Coalesce(v, Tail(keys))

\* strings.filter(Boolean).join(" ")
RECURSIVE JoinNonEmpty(_)
JoinNonEmpty(strs) ==
    IF strs = <<>> THEN <<>>
    ELSE IF Head(strs) = <<>> THEN JoinNonEmpty(Tail(strs))
    ELSE IF JoinNonEmpty(Tail(strs)) = <<>> THEN Head(strs)
    ELSE Head(strs) \o <<" ">> \o JoinNonEmpty(Tail(strs))

\* array.flatMap(f), given the sequence of the results of f.
RECURSIVE Flatten(_)
Flatten(seqs) == IF seqs = <<>> THEN <<>> ELSE Head(seqs) \o Flatten(Tail(seqs))

TranscriptItem(id, title, text) == [id |-> id, title |-> title, text |-> text]

\* The first of the keys whose value is a non-blank string, trimmed, as an
\* optional string; null is <<>>.
RECURSIVE firstString(_, _)
firstString(obj, keys) ==
    IF keys = <<>> THEN <<>>
    ELSE IF Get(obj, Head(keys)).t = "string" /\ Trim(Get(obj, Head(keys)).s) # <<>>
    THEN <<Trim(Get(obj, Head(keys)).s)>>
    ELSE firstString(obj, Tail(keys))

\* The string extractTextFromUnknown returns; it returns null where this is
\* the empty string, never "" itself, and its callers only test truthiness.
RECURSIVE extractTextFromUnknown(_)
extractTextFromUnknown(value) ==
    CASE value.t = "null" -> <<>>
      [] value.t = "string" -> Trim(value.s)
      [] value.t = "array" ->
            IF value.a = <<>> THEN <<>>
            ELSE IF \A i \in DOMAIN value.a : value.a[i].t = "string"
            THEN JoinNonEmpty([i \in DOMAIN value.a |-> Trim(value.a[i].s)])
            ELSE IF \A i \in DOMAIN value.a :
                        value.a[i].t = "object" /\ "text" \in DOMAIN value.a[i].o
            THEN JoinNonEmpty([i \in DOMAIN value.a |->
                                  IF value.a[i].o["text"].t = "string"
                                  THEN Trim(value.a[i].o["text"].s)
                                  ELSE <<>>])
            ELSE JoinNonEmpty([i \in DOMAIN value.a |-> extractTextFromUnknown(value.a[i])])
      [] value.t = "object" ->
            LET direct == extractTextFromUnknown(
                              Coalesce(value, <<"text", "transcript", "caption", "content">>))
                fallbackKeys == <<"segments", "captions", "items", "data", "results",
                                  "transcripts">>
                nested == [i \in DOMAIN fallbackKeys |->
                              extractTextFromUnknown(Get(value, fallbackKeys[i]))]
                found == {i \in DOMAIN fallbackKeys : nested[i] # <<>>}
            IN IF direct # <<>> THEN direct
               ELSE IF found # {}
               THEN nested[CHOOSE i \in found : \A j \in found : i <= j]
               ELSE <<>>
      [] OTHER -> <<>>

\* An entry that is a string becomes a record even when it is blank.
itemFromEntry_keepBlank(entry) ==
    IF entry.t = "string"
    THEN <<TranscriptItem(<<>>, <<>>, Trim(entry.s))>>
    ELSE IF extractTextFromUnknown(entry) # <<>>
    THEN <<TranscriptItem(<<>>, <<>>, extractTextFromUnknown(entry))>>
    ELSE <<>>

itemFromEntry(entry) ==
    CASE entry.t = "null" -> <<>>
      [] entry.t = "string" ->
            IF Trim(entry.s) # <<>> THEN <<TranscriptItem(<<>>, <<>>, Trim(entry.s))>> ELSE <<>>
      [] entry.t = "array" ->
            IF extractTextFromUnknown(entry) # <<>>
            THEN <<TranscriptItem(<<>>, <<>>, extractTextFromUnknown(entry))>>
            ELSE <<>>
      [] entry.t = "object" ->
            LET title == firstString(entry, <<"title", "video_title", "name">>)
                id == firstString(entry, <<"id", "video_id", "videoId">>)
                text == extractTextFromUnknown(
                            Coalesce(entry, <<"transcript", "text", "segments", "captions",
                                              "items", "data">>))
            IN IF text # <<>> THEN <<TranscriptItem(id, title, text)>> ELSE <<>>
      [] OTHER -> <<>>

\* The entries of a list folded into one record, their texts joined.
itemsFromEntries_joined(a) ==
    IF Flatten([i \in DOMAIN a |-> itemFromEntry(a[i])]) = <<>> THEN <<>>
    ELSE <<TranscriptItem(<<>>, <<>>,
                          JoinNonEmpty([i \in DOMAIN a |-> extractTextFromUnknown(a[i])]))>>

\* value.flatMap((entry) => itemFromEntry(entry))
itemsFromEntries(a) == Flatten([i \in DOMAIN a |-> itemFromEntry(a[i])])

\* The loop over collectionKeys: the items of the first key that holds a
\* list with at least one item.
RECURSIVE fromCollectionKeys(_, _)
fromCollectionKeys(obj, keys) ==
    IF keys = <<>> THEN <<>>
    ELSE IF Get(obj, Head(keys)).t = "array" /\ itemsFromEntries(Get(obj, Head(keys)).a) # <<>>
    THEN itemsFromEntries(Get(obj, Head(keys)).a)
    ELSE fromCollectionKeys(obj, Tail(keys))

collectionKeys == <<"transcripts", "results", "data", "items">>

extractTranscriptItems(payload) ==
    CASE payload.t = "null" -> <<>>
      [] payload.t = "string" ->
            IF Trim(payload.s) # <<>>
            THEN <<TranscriptItem(<<>>, <<>>, Trim(payload.s))>>
            ELSE <<>>
      [] payload.t = "array" ->
            IF itemsFromEntries(payload.a) # <<>> THEN itemsFromEntries(payload.a)
            ELSE IF extractTextFromUnknown(payload) # <<>>
            THEN <<TranscriptItem(<<>>, <<>>, extractTextFromUnknown(payload))>>
            ELSE <<>>
      [] payload.t = "object" ->
            IF fromCollectionKeys(payload, collectionKeys) # <<>>
            THEN fromCollectionKeys(payload, collectionKeys)
            ELSE IF extractTextFromUnknown(payload) # <<>>
            THEN <<TranscriptItem(<<>>, <<>>, extractTextFromUnknown(payload))>>
            ELSE <<>>
      [] OTHER -> <<>>

----------------------------------------------------------------------------
(* Subtitle parsers (providers/ytdlp.ts) *)

(***************************************************************************)
(* A subtitle document is a sequence of tokens, each a literal piece of    *)
(* the text: words ("a", "b"), a number ("12"), a cue time ("00:01", which *)
(* stands for a string like 00:00:01.000), the arrow "-->", the header     *)
(* words, whole markup tags ("<c>", "<00:00:01.000>", "<i>", "<p>",        *)
(* "</p>", "<br/>"), the six entities, single characters ("<", ">", "&",   *)
(* "[", "]", the music note U+266A, the quotes) and the white space " "    *)
(* and "\n".  The regular expressions of the code are translated for this  *)
(* alphabet, in which no two tokens concatenate into a third.              *)
(***************************************************************************)
Range(s) == {s[i] : i \in DOMAIN s}

MusicNote == "U+266A"

\* Tokens that are one whole tag.
TagTokens == {"<c>", "<00:00:01.000>", "<i>", "<p>", "</p>", "<br/>"}

\* Tokens that hold the character ">", all of them at their end.
ClosingTokens == TagTokens \cup {">", "-->"}

\* s.replace(token, "") for a token that is a whole match.
RECURSIVE removeToken(_, _)
removeToken(s, tok) ==
    IF s = <<>> THEN <<>>
    ELSE IF Head(s) = tok THEN removeToken(Tail(s), tok)
    ELSE <<Head(s)>> \o removeToken(Tail(s), tok)

\* s.replace(/<[^>]+>/g, replacement), scanning from the left: a whole tag
\* matches; a bare "<" matches up to the first token that holds ">", unless
\* that token is a bare ">" right behind it ("<>").
RECURSIVE stripTags(_, _)
stripTags(s, replacement) ==
    IF s = <<>> THEN <<>>
    ELSE IF Head(s) \in TagTokens THEN replacement \o stripTags(Tail(s), replacement)
    ELSE IF Head(s) = "<" /\ \E j \in 2..Len(s) : s[j] \in ClosingTokens
    THEN LET j == CHOOSE j \in 2..Len(s) :
                      /\ s[j] \in ClosingTokens
                      /\ \A k \in 2..(j - 1) : s[k] \notin ClosingTokens
         IN IF j = 2 /\ s[2] = ">"
            THEN <<"<">> \o stripTags(Tail(s), replacement)
            ELSE replacement \o stripTags(SubSeq(s, j + 1, Len(s)), replacement)
    ELSE <<Head(s)>> \o stripTags(Tail(s), replacement)

\* The six replacements of entities, which no token of the alphabet chains.
decodeEntity(tok) ==
    CASE tok = "&nbsp;" -> " "
      [] tok = "&amp;" -> "&"
      [] tok = "&lt;" -> "<"
      [] tok = "&gt;" -> ">"
      [] tok = "&quot;" -> "\""
      [] tok = "&#39;" -> "'"
      [] OTHER -> tok

decodeEntities(s) == [i \in DOMAIN s |-> decodeEntity(s[i])]

\* s.replace(/\s+/g, " ")
RECURSIVE collapseWhiteSpace(_)
collapseWhiteSpace(s) ==
    IF s = <<>> THEN <<>>
    ELSE IF Head(s) \in WhiteSpace
    THEN IF Len(s) > 1 /\ s[2] \in WhiteSpace
         THEN collapseWhiteSpace(Tail(s))
         ELSE <<" ">> \o collapseWhiteSpace(Tail(s))
    ELSE <<Head(s)>> \o collapseWhiteSpace(Tail(s))

\* /^\[.*\]$/ and /^U+266A.*U+266A$/ on a line without line breaks.
Enclosed(s, open, close) == Len(s) >= 2 /\ s[1] = open /\ s[Len(s)] = close

cleanSubtitleLine(line) ==
    LET untagged == stripTags(removeToken(removeToken(line, "<c>"), "<00:00:01.000>"), <<>>)
        cleaned == Trim(collapseWhiteSpace(decodeEntities(untagged)))
    IN IF Enclosed(cleaned, "[", "]") \/ Enclosed(cleaned, MusicNote, MusicNote)
       THEN <<>>
       ELSE Trim(removeToken(cleaned, MusicNote))

\* content.split(/\n\n+/)
RECURSIVE splitBlocks(_)
splitBlocks(s) ==
    IF \E i \in 1..(Len(s) - 1) : s[i] = "\n" /\ s[i + 1] = "\n"
    THEN LET i == CHOOSE i \in 1..(Len(s) - 1) :
                      /\ s[i] = "\n" /\ s[i + 1] = "\n"
                      /\ \A k \in 1..(i - 1) : ~(s[k] = "\n" /\ s[k + 1] = "\n")
             j == CHOOSE j \in (i + 1)..Len(s) :
                      /\ \A k \in i..j : s[k] = "\n"
                      /\ (j = Len(s) \/ s[j + 1] # "\n")
         IN <<SubSeq(s, 1, i - 1)>> \o splitBlocks(SubSeq(s, j + 1, Len(s)))
    ELSE <<s>>

\* block.split("\n")
RECURSIVE splitLines(_)
splitLines(s) ==
    IF "\n" \in Range(s)
    THEN LET i == CHOOSE i \in DOMAIN s : s[i] = "\n" /\ \A k \in 1..(i - 1) : s[k] # "\n"
         IN <<SubSeq(s, 1, i - 1)>> \o splitLines(SubSeq(s, i + 1, Len(s)))
    ELSE <<s>>

\* The lines of the document in the order the two nested loops visit them.
blockLines(content) ==
    Flatten([b \in DOMAIN splitBlocks(content) |-> splitLines(splitBlocks(content)[b])])

\* /^\d+$/.test(line.trim())
onlyDigits(line) == Trim(line) # <<>> /\ \A i \in DOMAIN Trim(line) : Trim(line)[i] = "12"

\* The lines parseVtt skips: header, metadata, cue numbers and cue timings.
skipVtt(line) ==
    \/ line # <<>> /\ line[1] \in {"WEBVTT", "Kind:", "Language:", "NOTE"}
    \/ onlyDigits(line)
    \/ line # <<>> /\ line[1] = "00:01"
    \/ "-->" \in Range(line)

\* The lines parseSrt skips: cue numbers and cue timings.
skipSrt(line) == onlyDigits(line) \/ "-->" \in Range(line)

\* Only a repeat of the line pushed last is dropped.
pushLine_consecutive(lines, cleaned) ==
    IF lines # <<>> /\ lines[Len(lines)] = cleaned THEN lines ELSE Append(lines, cleaned)

\* if (!seenLines.has(cleaned)) { seenLines.add(cleaned); lines.push(cleaned); }
\* seenLines holds exactly the lines pushed so far.
pushLine(lines, cleaned) ==
    IF cleaned \in Range(lines) THEN lines ELSE Append(lines, cleaned)

\* The loop body over the lines left to visit, with `lines` as it stands.
RECURSIVE collectLines(_, _, _)
collectLines(format, todo, lines) ==
    IF todo = <<>> THEN lines
    ELSE IF (format = "vtt" /\ skipVtt(Head(todo))) \/ (format = "srt" /\ skipSrt(Head(todo)))
    THEN collectLines(format, Tail(todo), lines)
    ELSE IF cleanSubtitleLine(Head(todo)) = <<>>
    THEN collectLines(format, Tail(todo), lines)
    ELSE collectLines(format, Tail(todo), pushLine(lines, cleanSubtitleLine(Head(todo))))

\* lines.join(" ")
RECURSIVE joinLines(_)
joinLines(lines) ==
    IF lines = <<>> THEN <<>>
    ELSE IF Len(lines) = 1 THEN lines[1]
    ELSE lines[1] \o <<" ">> \o joinLines(Tail(lines))

parseVtt(content) == joinLines(collectLines("vtt", blockLines(content), <<>>))

parseSrt(content) == joinLines(collectLines("srt", blockLines(content), <<>>))

\* content.matchAll(/<p[^>]*>([\s\S]*?)<\/p>/gi): the texts between each "<p>"
\* and the first "</p>" behind it, the search going on behind that "</p>".
RECURSIVE paragraphs(_)
paragraphs(s) ==
    IF \E i \in DOMAIN s : s[i] = "<p>" /\ \E j \in (i + 1)..Len(s) : s[j] = "</p>"
    THEN LET i == CHOOSE i \in DOMAIN s :
                      /\ s[i] = "<p>" /\ \E j \in (i + 1)..Len(s) : s[j] = "</p>"
                      /\ \A k \in 1..(i - 1) : s[k] # "<p>"
             j == CHOOSE j \in (i + 1)..Len(s) :
                      s[j] = "</p>" /\ \A k \in (i + 1)..(j - 1) : s[k] # "</p>"
         IN <<SubSeq(s, i + 1, j - 1)>> \o paragraphs(SubSeq(s, j + 1, Len(s)))
    ELSE <<>>

parseTtml(content) ==
    joinLines(collectLines("ttml",
                           [p \in DOMAIN paragraphs(content) |->
                               stripTags(paragraphs(content)[p], <<" ">>)],
                           <<>>))

\* subtitleFile.endsWith(".vtt") ? parseVtt : endsWith(".srt") ? parseSrt : parseTtml
parseSubtitle(format, content) ==
    IF format = "vtt" THEN parseVtt(content)
    ELSE IF format = "srt" THEN parseSrt(content)
    ELSE parseTtml(content)

----------------------------------------------------------------------------
(* extractVideoId (lib/youtube.ts) *)

(***************************************************************************)
(* An input is a sequence of tokens, each a literal piece of the string:   *)
(* the scheme "https://", host labels, the separators "/", "?", "=", "&",  *)
(* the path words, and pieces of a video id of one to six characters.      *)
(***************************************************************************)

\* The tokens made only of characters of [a-zA-Z0-9_-], with their lengths.
idLength(tok) ==
    CASE tok = "dQw4w9" -> 6
      [] tok = "WgXcQ" -> 5
      [] tok = "_-" -> 2
      [] tok = "v" -> 1
      [] tok = "t" -> 1
      [] tok = "watch" -> 5
      [] tok = "embed" -> 5
      [] tok = "shorts" -> 6
      [] tok = "live" -> 4
      [] OTHER -> 0

RECURSIVE length(_)
length(s) == IF s = <<>> THEN 0 ELSE idLength(Head(s)) + length(Tail(s))

\* The test without its count: /^[a-zA-Z0-9_-]+$/
validId_anyLength(s) == s # <<>> /\ \A i \in DOMAIN s : idLength(s[i]) > 0

\* /^[a-zA-Z0-9_-]{11}$/.test(s)
validId(s) == (\A i \in DOMAIN s : idLength(s[i]) > 0) /\ length(s) = 11

\* s.split(sep)
RECURSIVE split(_, _)
split(s, sep) ==
    IF sep \in Range(s)
    THEN LET i == CHOOSE i \in DOMAIN s : s[i] = sep /\ \A k \in 1..(i - 1) : s[k] # sep
         IN <<SubSeq(s, 1, i - 1)>> \o split(SubSeq(s, i + 1, Len(s)), sep)
    ELSE <<s>>

\* s.split(sep).filter(Boolean)
parts(s, sep) == SelectSeq(split(s, sep), LAMBDA p : p # <<>>)

\* Index of the first token of s that is in the set, or Len(s) + 1.
firstOf(s, set) ==
    IF \E i \in DOMAIN s : s[i] \in set
    THEN CHOOSE i \in DOMAIN s : s[i] \in set /\ \A k \in 1..(i - 1) : s[k] \notin set
    ELSE Len(s) + 1

\* Leading "/" of a string.
RECURSIVE skipSlashes(_)
skipSlashes(s) == IF s # <<>> /\ Head(s) = "/" THEN skipSlashes(Tail(s)) ELSE s

\* new URL(s): it throws unless s starts with a scheme and names a host
\* without white space.  Behind the scheme any further "/" is skipped; the
\* host ends at the first "/" or "?", the path at the first "?", and the rest
\* is the query.
parseUrl(s) ==
    IF s = <<>> \/ Head(s) # "https://" THEN [ok |-> FALSE]
    ELSE LET rest == skipSlashes(Tail(s))
             hostEnd == firstOf(rest, {"/", "?"})
             afterHost == SubSeq(rest, hostEnd, Len(rest))
             pathEnd == firstOf(afterHost, {"?"})
         IN IF hostEnd = 1 \/ " " \in Range(SubSeq(rest, 1, hostEnd - 1))
            THEN [ok |-> FALSE]
            ELSE [ok |-> TRUE,
                  hostname |-> SubSeq(rest, 1, hostEnd - 1),
                  pathname |-> SubSeq(afterHost, 1, pathEnd - 1),
                  search |-> SubSeq(afterHost, pathEnd + 1, Len(afterHost))]

\* url.searchParams.get(name): the value of the first parameter of that
\* name, "" standing in for null, which is as falsy.
searchParam(search, name) ==
    LET params == parts(search, "&")
        named == {i \in DOMAIN params :
                     SubSeq(params[i], 1, firstOf(params[i], {"="}) - 1) = <<name>>}
    IN IF named = {} THEN <<>>
       ELSE LET p == params[CHOOSE i \in named : \A j \in named : i <= j]
            IN SubSeq(p, firstOf(p, {"="}) + 1, Len(p))

\* hostname.replace(/^www\./, "")
stripWww(hostname) ==
    IF hostname # <<>> /\ Head(hostname) = "www." THEN Tail(hostname) ELSE hostname

\* The id behind the first of /embed/, /shorts/, /live/, as an optional value.
idBehindMarker(segments) ==
    LET index == firstOf(segments, {<<"embed">>, <<"shorts">>, <<"live">>})
    IN IF index < Len(segments) /\ validId(segments[index + 1])
       THEN <<segments[index + 1]>>
       ELSE <<>>

\* The id extractVideoId returns, as an optional value: <<>> is null.
extractVideoId(input) ==
    LET trimmed == Trim(input)
        url == parseUrl(trimmed)
        bareHost == stripWww(url.hostname)
        segments == parts(url.pathname, "/")
        vParam == searchParam(url.search, "v")
    IN IF trimmed = <<>> THEN <<>>
       ELSE IF validId(trimmed) THEN <<trimmed>>
       ELSE IF ~url.ok THEN <<>>
       ELSE IF bareHost = <<"youtu.be">>
       THEN IF segments # <<>> /\ validId(segments[1]) THEN <<segments[1]>> ELSE <<>>
       ELSE IF bareHost[Len(bareHost)] = "youtube.com"
       THEN IF validId(vParam) THEN <<vParam>> ELSE idBehindMarker(segments)
       ELSE <<>>

----------------------------------------------------------------------------
(* Providers *)

ApiProvider(token) == [name |-> "api", token |-> token, backend |-> NoBackend]

YtdlpProvider == [name |-> "ytdlp", token |-> <<>>, backend |-> NoBackend]

WhisperProvider(backend) == [name |-> "whisper", token |-> <<>>, backend |-> backend]

\* provider.available(), evaluated against the host as it is at the call.
available(p, h, e) ==
    CASE p.name = "api" -> p.token # <<>>
      [] p.name = "ytdlp" -> hasYtdlp(h)
      [] p.name = "whisper" -> hasYtdlp(h) /\ detectWhisper(h, e) # NoBackend

\* Variant: every provider's available() runs the backend detection.
detections_always(p, h) == 1

\* Calls of detectWhisper() one call of provider.available() makes: the whisper
\* provider's, when its yt-dlp check has passed.
detections(p, h) == IF p.name = "whisper" /\ hasYtdlp(h) THEN 1 ELSE 0

\* Messages of the errors a provider's fetch can raise.
FetchErrors(p) ==
    CASE p.name = "api" -> {"API request failed"}
      [] p.name = "ytdlp" -> {"yt-dlp failed"}
      [] p.name = "whisper" -> {"Failed to download audio file"}

\* Texts a speech-to-text run leaves in its output file, as they are read.
Texts == {<<>>, <<" ", "\n">>, <<" ", "hello", " ", "world", "\n">>}

\* Payloads the transcript API answers with.
ApiPayloads ==
    {JStr(<<" ">>),
     JObj(<<>>),
     JObj([data |-> JArr(<<JObj([text |-> JStr(<<"hello">>)]),
                           JObj([text |-> JStr(<<"world">>)])>>)])}

\* Subtitle files yt-dlp leaves in the scratch directory: a header without
\* cues, a cue that is only an annotation, and two rolling cues.
SubtitleFiles ==
    {[format |-> "vtt", content |-> <<"WEBVTT", "\n", "\n">>],
     [format |-> "srt",
      content |-> <<"12", "\n", "00:01", " ", "-->", " ", "00:01", "\n", "[", "a", "]", "\n">>],
     [format |-> "vtt",
      content |-> <<"WEBVTT", "\n", "\n",
                    "00:01", " ", "-->", " ", "00:01", "\n", "hello", "\n", "\n",
                    "00:01", " ", "-->", " ", "00:01", "\n", "hello", "\n", "world", "\n">>]}

\* Variant: the text is returned as it was read.
whisperReturn_unchecked(t) == TranscriptResult(t, "whisper")

\* WhisperProvider.fetch, lines 94-103.
whisperReturn(t) ==
    IF Trim(t) = <<>> THEN Null ELSE TranscriptResult(Trim(t), "whisper")

\* YtdlpProvider.fetch, lines 519-528.
ytdlpReturn(t) ==
    IF Trim(t) = <<>> THEN Null ELSE TranscriptResult(Trim(t), "ytdlp")

\* Variant: the result is built from the last record.
apiReturn_last(items) ==
    IF items = <<>> \/ items[Len(items)].text = <<>> THEN Null
    ELSE TranscriptResult(items[Len(items)].text, "api")

\* ApiProvider.fetch, lines 695-704.
apiReturn(items) ==
    IF items = <<>> \/ items[1].text = <<>> THEN Null
    ELSE TranscriptResult(items[1].text, "api")

\* What the body of provider.fetch(videoId) can return.
FetchReturns(p) ==
    CASE p.name = "api" -> {apiReturn(extractTranscriptItems(payload)) : payload \in ApiPayloads}
      [] p.name = "ytdlp" ->
            {Null} \cup {ytdlpReturn(parseSubtitle(f.format, f.content)) : f \in SubtitleFiles}
      [] p.name = "whisper" -> {whisperReturn(t) : t \in Texts}

\* What provider.fetch(videoId) can settle with: a TranscriptResult, null, or
\* a raised error.
FetchOutcomes(p) ==
    FetchReturns(p) \cup {Error(<<p.name, m>>) : m \in FetchErrors(p)}

----------------------------------------------------------------------------
(* Provider resolution *)

ResolveOk(chain, warns) ==
    [threw |-> FALSE, error |-> None, providers |-> chain, warnings |-> warns]

ResolveThrow(message) ==
    [threw |-> TRUE, error |-> Error(<<message>>), providers |-> <<>>, warnings |-> <<>>]

\* Variant: the whisper case does not check for yt-dlp.
resolveForced_noYtdlpCheck(name, token, ytdlpAvailable, whisperBackend) ==
    CASE name = "api" ->
            IF token = <<>>
            THEN ResolveThrow("API provider requires a token")
            ELSE ResolveOk(<<ApiProvider(token)>>, <<>>)
      [] name = "ytdlp" ->
            IF ~ytdlpAvailable
            THEN ResolveThrow("yt-dlp provider requested but yt-dlp is not installed")
            ELSE ResolveOk(<<YtdlpProvider>>, <<>>)
      [] name = "whisper" ->
            IF whisperBackend = NoBackend
            THEN ResolveThrow("Whisper provider requested but no whisper backend is available")
            ELSE ResolveOk(<<WhisperProvider(whisperBackend)>>, <<>>)
      [] OTHER -> ResolveOk(<<>>, <<>>)

\* The forced branch of resolveProviders: the switch on options.provider.
resolveForced(name, token, ytdlpAvailable, whisperBackend) ==
    CASE name = "api" ->
            IF token = <<>>
            THEN ResolveThrow("API provider requires a token")
            ELSE ResolveOk(<<ApiProvider(token)>>, <<>>)
      [] name = "ytdlp" ->
            IF ~ytdlpAvailable
            THEN ResolveThrow("yt-dlp provider requested but yt-dlp is not installed")
            ELSE ResolveOk(<<YtdlpProvider>>, <<>>)
      [] name = "whisper" ->
            IF ~ytdlpAvailable
            THEN ResolveThrow("Whisper provider requires yt-dlp for audio download")
            ELSE IF whisperBackend = NoBackend
            THEN ResolveThrow("Whisper provider requested but no whisper backend is available")
            ELSE ResolveOk(<<WhisperProvider(whisperBackend)>>, <<>>)
      [] OTHER -> ResolveOk(<<>>, <<>>)

\* Variant: the whisper push is outside the yt-dlp block.
autoChain_whisperOutside(token, ytdlpAvailable, whisperBackend) ==
    (IF token # <<>> THEN <<ApiProvider(token)>> ELSE <<>>)
        \o (IF ytdlpAvailable THEN <<YtdlpProvider>> ELSE <<>>)
        \o (IF whisperBackend # NoBackend
            THEN <<WhisperProvider(whisperBackend)>>
            ELSE <<>>)

\* The chain of the auto branch, in the order of its pushes.
autoChain(token, ytdlpAvailable, whisperBackend) ==
    (IF token # <<>> THEN <<ApiProvider(token)>> ELSE <<>>)
        \o (IF ytdlpAvailable
            THEN <<YtdlpProvider>>
                    \o (IF whisperBackend # NoBackend
                        THEN <<WhisperProvider(whisperBackend)>>
                        ELSE <<>>)
            ELSE <<>>)

autoWarnings(token, ytdlpAvailable, whisperBackend) ==
    (IF token = <<>> THEN <<"No API token set. Using yt-dlp for subtitles.">> ELSE <<>>)
        \o (IF ~ytdlpAvailable /\ token # <<>>
            THEN <<"yt-dlp not found. No fallback if API fails.">>
            ELSE <<>>)
        \o (IF ytdlpAvailable /\ whisperBackend = NoBackend
            THEN <<"No whisper backend found. Cannot transcribe videos without subtitles.">>
            ELSE <<>>)

\* Auto mode that hands an empty chain on instead of raising.
resolveAuto_emptyChain(token, ytdlpAvailable, whisperBackend) ==
    ResolveOk(autoChain(token, ytdlpAvailable, whisperBackend),
              autoWarnings(token, ytdlpAvailable, whisperBackend))

resolveAuto(token, ytdlpAvailable, whisperBackend) ==
    IF autoChain(token, ytdlpAvailable, whisperBackend) = <<>>
    THEN ResolveThrow("No transcript provider available")
    ELSE ResolveOk(autoChain(token, ytdlpAvailable, whisperBackend),
                   autoWarnings(token, ytdlpAvailable, whisperBackend))

\* options.provider && options.provider !== "auto"
isForced(name) == name # "" /\ name # "auto"

resolveProviders(name, token, ytdlpAvailable, whisperBackend) ==
    IF isForced(name)
    THEN resolveForced(name, token, ytdlpAvailable, whisperBackend)
    ELSE resolveAuto(token, ytdlpAvailable, whisperBackend)

----------------------------------------------------------------------------
(* The run *)

\* Values of --token and of the environment's token, untrimmed.
TokenOptions == {<<>>, << <<" ">> >>, << <<" ", "t">> >>}
EnvTokens == {<<>>, << <<"e", " ">> >>}

\* The token configurations of a run: nothing configured, a blank --token with
\* the environment's token behind it, and a --token of its own.
TokenConfigs ==
    {c \in TokenOptions \X EnvTokens :
        \/ c[1] = <<>> /\ c[2] = <<>>
        \/ c[1] = << <<" ">> >> /\ c[2] # <<>>
        \/ c[1] = << <<" ", "t">> >> /\ c[2] = <<>>}

\* Values of --provider: commander accepts any string; "other" stands for
\* every name that is none of the four the help text lists.
ProviderNames == {"api", "ytdlp", "whisper", "auto", "other"}

WhisperOnPath == {"absent", "whisper.cpp", "openai-whisper", "help-fails"}

Hosts == [ytdlp : BOOLEAN, whisperCpp : BOOLEAN, whisper : WhisperOnPath, mlx : BOOLEAN]

\* The hosts a run starts on: at most one speech-to-text executable installed
\* (HostChange installs further ones).
InitHosts ==
    {h \in Hosts :
        Cardinality({c \in {"whisper-cpp", "whisper", "mlx_whisper"} :
                        commandExists(h, c)}) <= 1}

noFallback == options.fallback = FALSE

\* No provider fetch is being followed step by step.
FetchIdle ==
    /\ self = None
    /\ fpc = "idle"
    /\ tempDir = "none"
    /\ rmCalls = 0
    /\ rawText = None
    /\ completion = None
    /\ settled = None

\* No library function is being applied on its own.
CallIdle ==
    /\ fn = "none"
    /\ arg = None
    /\ out = None

\* main() is not running.
MainIdle ==
    /\ options = None
    /\ env = None
    /\ host = None
    /\ hostChanges = 0
    /\ ids = <<>>
    /\ pc = "idle"
    /\ resolved = None
    /\ probedHost = None
    /\ detectCalls = 0
    /\ providers = <<>>
    /\ warnings = <<>>
    /\ vid = 0
    /\ idx = 0
    /\ errors = <<>>
    /\ availCalls = <<>>
    /\ fetchCalls = <<>>
    /\ attempt = <<>>
    /\ ret = None
    /\ thrown = None
    /\ results = <<>>
    /\ stderr = <<>>
    /\ stdout = <<>>
    /\ exitCode = 0

Init ==
    /\ options \in [token : TokenOptions, provider : ProviderNames, fallback : BOOLEAN]
    /\ env \in [YOUTUBE_TRANSCRIPT_API_TOKEN : EnvTokens, OPENAI_API_KEY : BOOLEAN]
    /\ <<options.token, env.YOUTUBE_TRANSCRIPT_API_TOKEN>> \in TokenConfigs
    /\ host \in InitHosts
    /\ hostChanges = 0
    /\ ids \in {[i \in 1..n |-> i] : n \in 1..MaxVideos}
    /\ pc = "resolve"
    /\ resolved = [token |-> <<>>, ytdlpAvailable |-> FALSE, whisperBackend |-> NoBackend]
    /\ probedHost = host
    /\ detectCalls = 0
    /\ providers = <<>>
    /\ warnings = <<>>
    /\ vid = 0
    /\ idx = 0
    /\ errors = <<>>
    /\ availCalls = <<>>
    /\ fetchCalls = <<>>
    /\ attempt = <<>>
    /\ ret = None
    /\ thrown = None
    /\ results = <<>>
    /\ stderr = <<>>
    /\ stdout = <<>>
    /\ exitCode = 0
    /\ FetchIdle
    /\ CallIdle

\* One tool is installed, removed or replaced while the program runs.  The
\* program sees the host only when it probes it, in resolveProviders and in
\* available(), so a change is taken right before one of these.
HostChange ==
    /\ hostChanges < MaxHostChanges
    /\ pc = "resolve" \/ (pc = "available" /\ idx <= Len(providers))
    /\ \E h \in Hosts :
        /\ Cardinality({f \in DOMAIN host : h[f] # host[f]}) = 1
        /\ host' = h
    /\ hostChanges' = hostChanges + 1
    /\ UNCHANGED <<detectCalls, options, env, ids, pc, resolved, probedHost, providers, warnings, vid, idx,
                   errors, availCalls, fetchCalls, attempt, ret, thrown, results,
                   stderr, stdout, exitCode>>
    /\ UNCHANGED <<fetchVars, callVars>>

\* main, lines 86-91: resolve the chain and show the warnings.
main_resolveProviders ==
    /\ pc = "resolve"
    /\ LET token == resolveApiToken(options.token, env)
           ytdlpAvailable == hasYtdlp(host)
           whisperBackend == detectWhisper(host, env)
           r == resolveProviders(options.provider, token, ytdlpAvailable, whisperBackend)
       IN /\ resolved' = [token |-> token, ytdlpAvailable |-> ytdlpAvailable,
                          whisperBackend |-> whisperBackend]
          /\ probedHost' = host
          /\ IF r.threw
             THEN /\ thrown' = r.error
                  /\ pc' = "threw"
                  /\ UNCHANGED <<providers, warnings, stderr>>
             ELSE /\ providers' = r.providers
                  /\ warnings' = r.warnings
                  /\ stderr' = stderr \o [i \in 1..Len(r.warnings) |->
                                             <<"Warning", r.warnings[i]>>]
                  /\ pc' = "loop"
                  /\ UNCHANGED thrown
    /\ detectCalls' = detectCalls + 1
    /\ UNCHANGED <<options, env, host, hostChanges, ids, vid, idx, errors,
                   availCalls, fetchCalls, attempt, ret, results, stdout, exitCode>>
    /\ UNCHANGED <<fetchVars, callVars>>

----------------------------------------------------------------------------
(* fetchTranscript *)

\* The error of line 390, raised when a provider returned null and fallback is off.
NoTranscriptError(name, videoId) ==
    Error(<<name, "No transcript available for video", videoId>>)

\* Variant: the aggregate error reports the last entry of the log only.
AllProvidersFailed_last(videoId, chain, errs) ==
    Error(<<"Failed to get transcript for video", videoId, Len(chain),
            [i \in 1..(IF errs = <<>> THEN 0 ELSE 1) |->
                <<errs[Len(errs)].provider, errs[Len(errs)].error.message>>]>>)

\* The aggregate error of lines 408-415: the chain's length and one line per
\* entry of the attempt log.
AllProvidersFailed(videoId, chain, errs) ==
    Error(<<"Failed to get transcript for video", videoId, Len(chain),
            [i \in 1..Len(errs) |-> <<errs[i].provider, errs[i].error.message>>]>>)

\* Variant: the loop stays on the provider it has just attempted.
nextProvider_stay(i) == i

\* The loop's step to the next provider of the chain (continue, or the end of the body).
nextProvider(i) == i + 1

\* Variant: with fallback disabled an unavailable provider ends the run.
onUnavailable_strict ==
    IF noFallback
    THEN /\ thrown' = Error(<<providers[idx].name, "Provider is not available">>)
         /\ pc' = "threw"
         /\ UNCHANGED <<idx, errors, ret, stderr>>
    ELSE /\ idx' = nextProvider(idx)
         /\ UNCHANGED <<pc, errors, ret, thrown, stderr>>

\* Lines 379-381: available() was negative.
onUnavailable ==
    /\ idx' = nextProvider(idx)
    /\ UNCHANGED <<pc, errors, ret, thrown, stderr>>

\* Variant: a result does not end the loop.
onResult_continue(result) ==
    /\ idx' = nextProvider(idx)
    /\ pc' = "available"
    /\ UNCHANGED <<ret, errors, thrown, stderr>>

\* Lines 384-386: fetch returned a result.
onResult(result) ==
    /\ ret' = result
    /\ pc' = "returned"
    /\ UNCHANGED <<idx, errors, thrown, stderr>>

\* Variant: the catch block never rethrows.
catchBlock_swallow(error) ==
    /\ errors' = Append(errors, [provider |-> providers[idx].name, error |-> error])
    /\ stderr' = Append(stderr, <<providers[idx].name, error.message>>)
    /\ idx' = nextProvider(idx)
    /\ pc' = "available"
    /\ UNCHANGED <<ret, thrown>>

\* Variant: with fallback off the catch block raises the aggregate error.
catchBlock_aggregate(error) ==
    /\ errors' = Append(errors, [provider |-> providers[idx].name, error |-> error])
    /\ IF noFallback
       THEN /\ thrown' = AllProvidersFailed(ids[vid], providers, errors')
            /\ pc' = "threw"
            /\ UNCHANGED <<idx, stderr>>
       ELSE /\ stderr' = Append(stderr, <<providers[idx].name, error.message>>)
            /\ idx' = nextProvider(idx)
            /\ pc' = "available"
            /\ UNCHANGED thrown
    /\ UNCHANGED ret

\* Lines 392-404: the catch block.
catchBlock(error) ==
    /\ errors' = Append(errors, [provider |-> providers[idx].name, error |-> error])
    /\ IF noFallback
       THEN /\ thrown' = error
            /\ pc' = "threw"
            /\ UNCHANGED <<idx, stderr>>
       ELSE /\ stderr' = Append(stderr, <<providers[idx].name, error.message>>)
            /\ idx' = nextProvider(idx)
            /\ pc' = "available"
            /\ UNCHANGED thrown
    /\ UNCHANGED ret

\* Variant: null is logged as an error of the provider before the loop goes on.
onNull_logged ==
    IF noFallback
    THEN catchBlock(NoTranscriptError(providers[idx].name, ids[vid]))
    ELSE /\ errors' = Append(errors, [provider |-> providers[idx].name,
                                      error |-> NoTranscriptError(providers[idx].name, ids[vid])])
         /\ idx' = nextProvider(idx)
         /\ pc' = "available"
         /\ UNCHANGED <<ret, thrown, stderr>>

\* Variant: null never raises, whatever noFallback is.
onNull_continue ==
    /\ idx' = nextProvider(idx)
    /\ pc' = "available"
    /\ UNCHANGED <<errors, ret, thrown, stderr>>

\* Lines 388-391: fetch returned null.
onNull ==
    IF noFallback
    THEN catchBlock(NoTranscriptError(providers[idx].name, ids[vid]))
    ELSE /\ idx' = nextProvider(idx)
         /\ pc' = "available"
         /\ UNCHANGED <<errors, ret, thrown, stderr>>

\* Lines 376-383: the next provider's available() is awaited; fetch is called
\* when it is positive.
fetchTranscript_available ==
    /\ pc = "available"
    /\ idx <= Len(providers)
    /\ availCalls' = [availCalls EXCEPT ![idx] = @ + 1]
    /\ detectCalls' = detectCalls + detections(providers[idx], host)
    /\ IF available(providers[idx], host, env)
       THEN /\ fetchCalls' = [fetchCalls EXCEPT ![idx] = @ + 1]
            /\ attempt' = [attempt EXCEPT ![idx] = Pending]
            /\ pc' = "fetching"
            /\ UNCHANGED <<idx, errors, ret, thrown, stderr>>
       ELSE /\ attempt' = [attempt EXCEPT ![idx] = Unavailable]
            /\ onUnavailable
            /\ UNCHANGED fetchCalls
    /\ UNCHANGED <<options, env, host, hostChanges, ids, resolved, probedHost, providers,
                   warnings, vid, results, stdout, exitCode>>
    /\ UNCHANGED <<fetchVars, callVars>>

\* Lines 383-404: the awaited fetch settles.
fetchTranscript_settle ==
    /\ pc = "fetching"
    /\ \E r \in FetchOutcomes(providers[idx]) :
        /\ attempt' = [attempt EXCEPT ![idx] = r]
        /\ CASE r.kind = "result" -> onResult(r)
             [] r.kind = "null" -> onNull
             [] r.kind = "error" -> catchBlock(r)
    /\ UNCHANGED <<detectCalls, options, env, host, hostChanges, ids, resolved, probedHost, providers,
                   warnings, vid, availCalls, fetchCalls, results, stdout, exitCode>>
    /\ UNCHANGED <<fetchVars, callVars>>

\* Lines 407-415: the loop ended without a return.
fetchTranscript_exhausted ==
    /\ pc = "available"
    /\ idx > Len(providers)
    /\ thrown' = AllProvidersFailed(ids[vid], providers, errors)
    /\ pc' = "threw"
    /\ UNCHANGED <<detectCalls, options, env, host, hostChanges, ids, resolved, probedHost, providers,
                   warnings, vid, idx, errors, availCalls, fetchCalls, attempt,
                   ret, results, stderr, stdout, exitCode>>
    /\ UNCHANGED <<fetchVars, callVars>>

----------------------------------------------------------------------------
(* main *)

\* Line 96-98: the next video, and the call of fetchTranscript for it.
main_loop ==
    /\ pc = "loop"
    /\ IF vid < Len(ids)
       THEN /\ vid' = vid + 1
            /\ idx' = 1
            /\ errors' = <<>>
            /\ availCalls' = [i \in 1..Len(providers) |-> 0]
            /\ fetchCalls' = [i \in 1..Len(providers) |-> 0]
            /\ attempt' = [i \in 1..Len(providers) |-> None]
            /\ ret' = None
            /\ pc' = "available"
       ELSE /\ pc' = "output"
            /\ UNCHANGED <<vid, idx, errors, availCalls, fetchCalls, attempt, ret>>
    /\ UNCHANGED <<detectCalls, options, env, host, hostChanges, ids, resolved, probedHost, providers,
                   warnings, thrown, results, stderr, stdout, exitCode>>
    /\ UNCHANGED <<fetchVars, callVars>>

\* Lines 98-99: fetchTranscript returned.
main_push ==
    /\ pc = "returned"
    /\ results' = Append(results, [id |-> ids[vid], result |-> ret])
    /\ pc' = "loop"
    /\ UNCHANGED <<detectCalls, options, env, host, hostChanges, ids, resolved, probedHost, providers,
                   warnings, vid, idx, errors, availCalls, fetchCalls, attempt,
                   ret, thrown, stderr, stdout, exitCode>>
    /\ UNCHANGED <<fetchVars, callVars>>

\* Lines 102-142: one block per result, written at once.
main_output ==
    /\ pc = "output"
    /\ stdout' = [i \in 1..Len(results) |->
                    [id |-> results[i].id, text |-> results[i].result.text,
                     source |-> results[i].result.source]]
    /\ pc' = "done"
    /\ UNCHANGED <<detectCalls, options, env, host, hostChanges, ids, resolved, probedHost, providers,
                   warnings, vid, idx, errors, availCalls, fetchCalls, attempt,
                   ret, thrown, results, stderr, exitCode>>
    /\ UNCHANGED <<fetchVars, callVars>>

\* Variant: a video that failed is reported and the loop goes on to the next.
main_catch_skipVideo ==
    /\ pc = "threw"
    /\ stderr' = Append(stderr, thrown.message)
    /\ exitCode' = 1
    /\ pc' = IF vid > 0 THEN "loop" ELSE "exit"
    /\ UNCHANGED <<detectCalls, options, env, host, hostChanges, ids, resolved, probedHost, providers,
                   warnings, vid, idx, errors, availCalls, fetchCalls, attempt,
                   ret, thrown, results, stdout>>
    /\ UNCHANGED <<fetchVars, callVars>>

\* Lines 166-169: main().catch.
main_catch ==
    /\ pc = "threw"
    /\ stderr' = Append(stderr, thrown.message)
    /\ exitCode' = 1
    /\ pc' = "exit"
    /\ UNCHANGED <<detectCalls, options, env, host, hostChanges, ids, resolved, probedHost, providers,
                   warnings, vid, idx, errors, availCalls, fetchCalls, attempt,
                   ret, thrown, results, stdout>>
    /\ UNCHANGED <<fetchVars, callVars>>

Next ==
    \/ HostChange
    \/ main_resolveProviders
    \/ main_loop
    \/ fetchTranscript_available
    \/ fetchTranscript_settle
    \/ fetchTranscript_exhausted
    \/ main_push
    \/ main_output
    \/ main_catch

Spec == Init /\ [][Next]_vars

----------------------------------------------------------------------------
(* extractTranscriptItems applied to one payload *)

\* Strings of a payload: blank, plain, and padded with whitespace.
PayloadStrings ==
    {<<" ">>, <<"hello">>, <<"world">>, <<" ", "plain", " ", "string", " ">>}

Leaves == {JNull, JNum} \cup {JStr(str) : str \in PayloadStrings}

\* Entries of a collection: primitives, the empty object, records with a
\* text, a title or segments.
Entries ==
    Leaves
        \cup {JObj(<<>>)}
        \cup {JObj([text |-> v]) : v \in Leaves}
        \cup {JObj([title |-> JStr(<<"hello">>)]),
              JObj([text |-> JStr(<<"hello">>), title |-> JStr(<<" ", "world", " ">>),
                    id |-> JStr(<<"world">>)]),
              JObj([segments |-> JArr(<<JStr(<<"hello">>), JObj([text |-> JStr(<<"world">>)])>>)])}

EntryLists == UNION {[1..n -> Entries] : n \in 0..MaxEntries}

\* Payloads: an entry on its own, a list of entries, or an object holding a
\* list under a collection key, under a text key, under an unknown key, or
\* behind a collection key of higher priority that yields nothing.
Payloads ==
    Entries
        \cup {JArr(l) : l \in EntryLists}
        \cup {JObj([data |-> JArr(l)]) : l \in EntryLists}
        \cup {JObj([items |-> JArr(l)]) : l \in EntryLists}
        \cup {JObj([text |-> JArr(l)]) : l \in EntryLists}
        \cup {JObj([other |-> JArr(l)]) : l \in EntryLists}
        \cup {JObj([results |-> JArr(<<JStr(<<" ">>)>>), data |-> JArr(l)]) : l \in EntryLists}

InitExtract ==
    /\ fn = "extractTranscriptItems"
    /\ arg \in Payloads
    /\ out = Pending
    /\ MainIdle
    /\ FetchIdle

call_extractTranscriptItems ==
    /\ fn = "extractTranscriptItems"
    /\ out = Pending
    /\ out' = Returned(extractTranscriptItems(arg))
    /\ UNCHANGED <<fn, arg, mainVars, fetchVars>>

NextExtract == call_extractTranscriptItems

SpecExtract == InitExtract /\ [][NextExtract]_vars

----------------------------------------------------------------------------
(* A subtitle parser applied to one document *)

\* Texts of a cue: a line, the same line inside styling tags, a rolled pair
\* of lines, and two lines with one bracket each.
CueTexts ==
    {<<"a">>,
     <<"<c>", "a", "<c>", " ">>,
     <<"a", "\n", "b">>,
     <<"[", "a">>,
     <<"b", "]">>}

CueLists == UNION {[1..n -> CueTexts] : n \in 0..MaxCues}

CueTiming == <<"00:01", " ", "-->", " ", "00:01", "\n">>

\* The document yt-dlp writes for the cues, in each of the three formats.
renderVtt(cues) ==
    <<"WEBVTT", "\n", "Kind:", " ", "a", "\n", "Language:", " ", "a", "\n", "\n">>
        \o Flatten([i \in DOMAIN cues |-> CueTiming \o cues[i] \o <<"\n", "\n">>])

renderSrt(cues) ==
    Flatten([i \in DOMAIN cues |-> <<"12", "\n">> \o CueTiming \o cues[i] \o <<"\n", "\n">>])

renderTtml(cues) ==
    <<"<i>", "\n">>
        \o Flatten([i \in DOMAIN cues |-> <<"<p>">> \o cues[i] \o <<"</p>", "\n">>])

Documents ==
    {[format |-> "vtt", cues |-> c, content |-> renderVtt(c)] : c \in CueLists}
        \cup {[format |-> "srt", cues |-> c, content |-> renderSrt(c)] : c \in CueLists}
        \cup {[format |-> "ttml", cues |-> c, content |-> renderTtml(c)] : c \in CueLists}

InitParse ==
    /\ fn = "parseSubtitle"
    /\ arg \in Documents
    /\ out = Pending
    /\ MainIdle
    /\ FetchIdle

call_parseSubtitle ==
    /\ fn = "parseSubtitle"
    /\ out = Pending
    /\ out' = Returned(parseSubtitle(arg.format, arg.content))
    /\ UNCHANGED <<fn, arg, mainVars, fetchVars>>

NextParse == call_parseSubtitle

SpecParse == InitParse /\ [][NextParse]_vars

----------------------------------------------------------------------------
(* extractVideoId applied to one input *)

\* Candidate ids: two of 11 valid characters, one of 10, one of 12, and one
\* of 11 characters with a character outside the class.
CandidateIds ==
    {<<"dQw4w9", "WgXcQ">>,
     <<"_-", "dQw4w9", "_-", "v">>,
     <<"dQw4w9", "live">>,
     <<"dQw4w9", "WgXcQ", "v">>,
     <<"dQw4w9", "live", "!">>}

YoutubeHosts == {<<"www.", "youtube.com">>, <<"youtube.com">>, <<"m.", "youtube.com">>}

\* The supported shapes of the README with the id in place.
shapeOf(shape, site, id) ==
    CASE shape = "raw" -> id
      [] shape = "watch" -> <<"https://">> \o site \o <<"/", "watch", "?", "v", "=">> \o id
      [] shape = "watch-late" ->
            <<"https://">> \o site \o <<"/", "watch", "?", "t", "=", "t", "&", "v", "=">> \o id
      [] shape = "youtu.be" -> <<"https://", "youtu.be", "/">> \o id \o <<"?", "t", "=", "t">>
      [] shape = "embed" -> <<"https://">> \o site \o <<"/", "embed", "/">> \o id
      [] shape = "shorts" -> <<"https://">> \o site \o <<"/", "shorts", "/">> \o id \o <<"/">>
      [] shape = "live" -> <<"https://">> \o site \o <<"/", "live", "/">> \o id \o <<"?", "t", "=", "t">>

Shapes == {"raw", "watch", "watch-late", "youtu.be", "embed", "shorts", "live"}

\* What becomes of a well-formed input when it is damaged: nothing, the
\* scheme lost, the host lost, or white space inside the host.
damage(how, s) ==
    CASE how = "none" -> s
      [] how = "no-scheme" -> Tail(s)
      [] how = "no-host" ->
            <<"https://">> \o SubSeq(s, firstOf(s, {"/"}), Len(s))
      [] how = "space-in-host" -> <<"https://", " ">> \o Tail(s)

Damages == {"none", "no-scheme", "no-host", "space-in-host"}

Paddings == {<<>>, <<" ">>}

\* The inputs: every candidate id in every shape on every host, whole or
\* damaged, bare or padded with white space; `id`, `shape` and `malformed`
\* record how `input` was put together.
VideoInputs ==
    {[input |-> pad \o id \o pad, id |-> id, shape |-> "raw", malformed |-> FALSE] :
        pad \in Paddings, id \in CandidateIds}
    \cup
    {[input |-> pad \o damage(how, shapeOf(shape, site, id)) \o pad,
      id |-> id, shape |-> shape, malformed |-> how # "none"] :
        pad \in Paddings, how \in Damages, shape \in Shapes \ {"raw"},
        site \in YoutubeHosts, id \in CandidateIds}

InitVideoId ==
    /\ fn = "extractVideoId"
    /\ arg \in VideoInputs
    /\ out = Pending
    /\ MainIdle
    /\ FetchIdle

call_extractVideoId ==
    /\ fn = "extractVideoId"
    /\ out = Pending
    /\ out' = Returned(extractVideoId(arg.input))
    /\ UNCHANGED <<fn, arg, mainVars, fetchVars>>

NextVideoId == call_extractVideoId

SpecVideoId == InitVideoId /\ [][NextVideoId]_vars

----------------------------------------------------------------------------
(* One call of provider.fetch(videoId) *)

\* The providers resolveProviders can put in a chain.
FetchProviders ==
    {ApiProvider(<<"t">>), YtdlpProvider}
        \cup ({WhisperProvider(detectWhisper(h, [OPENAI_API_KEY |-> key])) :
                  h \in Hosts, key \in BOOLEAN} \ {WhisperProvider(NoBackend)})

InitFetch ==
    /\ self \in FetchProviders
    /\ fpc = "start"
    /\ tempDir = "none"
    /\ rmCalls = 0
    /\ rawText = None
    /\ completion = Pending
    /\ settled = Pending
    /\ MainIdle
    /\ CallIdle

\* throw new Error(message), inside the provider.
raise(message) == Error(<<self.name, message>>)

\* Lines 33 and 441: mkdtemp, before the try block is entered.
fetch_mkdtemp ==
    /\ fpc = "start"
    /\ self.name \in {"ytdlp", "whisper"}
    /\ \/ /\ tempDir' = "exists"
          /\ fpc' = "try"
          /\ UNCHANGED settled
       \/ /\ settled' = raise("mkdtemp failed")
          /\ fpc' = "settled"
          /\ UNCHANGED tempDir
    /\ UNCHANGED <<self, rmCalls, rawText, completion, mainVars, callVars>>

\* Lines 464-478: yt-dlp runs; its failure is raised unless it wrote output.
ytdlp_exec ==
    /\ fpc = "try"
    /\ self.name = "ytdlp"
    /\ \E exit \in {"ok", "error with stdout", "error"} :
        IF exit = "error"
        THEN completion' = raise("yt-dlp failed") /\ fpc' = "finally"
        ELSE fpc' = "readdir" /\ UNCHANGED completion
    /\ UNCHANGED <<self, tempDir, rmCalls, rawText, settled, mainVars, callVars>>

\* Lines 499-517: the subtitle file is looked up, read and parsed.
ytdlp_readFile ==
    /\ fpc = "readdir"
    /\ \/ /\ completion' = Null
          /\ fpc' = "finally"
          /\ UNCHANGED rawText
       \/ /\ completion' = raise("readFile failed")
          /\ fpc' = "finally"
          /\ UNCHANGED rawText
       \/ \E f \in SubtitleFiles :
            /\ rawText' = Returned(parseSubtitle(f.format, f.content))
            /\ fpc' = "return"
            /\ UNCHANGED completion
    /\ UNCHANGED <<self, tempDir, rmCalls, settled, mainVars, callVars>>

\* Lines 53-55: yt-dlp downloads the audio.
whisper_download ==
    /\ fpc = "try"
    /\ self.name = "whisper"
    /\ \/ fpc' = "access" /\ UNCHANGED completion
       \/ completion' = raise("yt-dlp failed") /\ fpc' = "finally"
    /\ UNCHANGED <<self, tempDir, rmCalls, rawText, settled, mainVars, callVars>>

\* Lines 66-71: the audio file is there or not.
whisper_access ==
    /\ fpc = "access"
    /\ \/ fpc' = "transcribe" /\ UNCHANGED completion
       \/ completion' = raise("Failed to download audio file") /\ fpc' = "finally"
    /\ UNCHANGED <<self, tempDir, rmCalls, rawText, settled, mainVars, callVars>>

\* Lines 76-92 with runWhisperCpp, runWhisperCli, runMlxWhisper and
\* runWhisperApi: the backend runs and its output is read.
whisper_transcribe ==
    /\ fpc = "transcribe"
    /\ \/ \E t \in Texts :
            /\ rawText' = Returned(t)
            /\ fpc' = "return"
            /\ UNCHANGED completion
       \/ /\ \E message \in
                 IF self.backend.type = "openai-api"
                 THEN {"OPENAI_API_KEY is required for OpenAI Whisper API", "curl failed",
                       "OpenAI API returned invalid JSON", "OpenAI API error"}
                 ELSE {"transcription failed", "failed to produce output"} :
               completion' = raise(message)
          /\ fpc' = "finally"
          /\ UNCHANGED rawText
    /\ UNCHANGED <<self, tempDir, rmCalls, settled, mainVars, callVars>>

\* Lines 94-103 and 519-528: the text is trimmed and returned, or null is.
fetch_return ==
    /\ fpc = "return"
    /\ completion' = IF self.name = "ytdlp"
                     THEN ytdlpReturn(rawText.value)
                     ELSE whisperReturn(rawText.value)
    /\ fpc' = "finally"
    /\ UNCHANGED <<self, tempDir, rmCalls, rawText, settled, mainVars, callVars>>

\* Variant: the directory is removed only when the try block returned.
finallyBlock_onReturn(removed) ==
    IF completion.kind = "error"
    THEN UNCHANGED <<rmCalls, tempDir>>
    ELSE /\ rmCalls' = rmCalls + 1
         /\ tempDir' = IF removed THEN "deleted" ELSE "undeletable"

\* Lines 104-107 and 529-532: rm(tempDir, ...).catch(() => {}): the directory
\* is removed, or rm is rejected, which is swallowed and leaves the directory.
finallyBlock(removed) ==
    /\ rmCalls' = rmCalls + 1
    /\ tempDir' = IF removed THEN "deleted" ELSE "undeletable"

\* The finally block runs however the try block completed; then the promise
\* settles with that completion.
fetch_finally ==
    /\ fpc = "finally"
    /\ \E removed \in BOOLEAN : finallyBlock(removed)
    /\ settled' = completion
    /\ fpc' = "settled"
    /\ UNCHANGED <<self, rawText, completion, mainVars, callVars>>

\* Line 692 with fetchTranscripts (api.ts): the request is answered with a
\* payload, or it fails.
api_fetchTranscripts ==
    /\ fpc = "start"
    /\ self.name = "api"
    /\ \/ \E payload \in ApiPayloads :
            /\ rawText' = Returned(payload)
            /\ fpc' = "payload"
            /\ UNCHANGED settled
       \/ /\ settled' = raise(IF self.token = <<>> THEN "Missing API token"
                              ELSE "API request failed")
          /\ fpc' = "settled"
          /\ UNCHANGED rawText
    /\ UNCHANGED <<self, tempDir, rmCalls, completion, mainVars, callVars>>

\* Lines 693-704: the first item of the payload is returned, or null is.
api_return ==
    /\ fpc = "payload"
    /\ settled' = apiReturn(extractTranscriptItems(rawText.value))
    /\ fpc' = "settled"
    /\ UNCHANGED <<self, tempDir, rmCalls, rawText, completion, mainVars, callVars>>

NextFetch ==
    \/ fetch_mkdtemp
    \/ ytdlp_exec
    \/ ytdlp_readFile
    \/ whisper_download
    \/ whisper_access
    \/ whisper_transcribe
    \/ fetch_return
    \/ fetch_finally
    \/ api_fetchTranscripts
    \/ api_return

SpecFetch == InitFetch /\ [][NextFetch]_vars

----------------------------------------------------------------------------
(* Properties of fetchTranscript *)

\* fetchTranscript has been called for the current video.
Fetching == vid > 0

Chain == 1..Len(providers)

\* The attempt of provider i ended without a result.
Finished(i) == attempt[i].kind \in {"unavailable", "null", "error"}

\* No provider after position i has been invoked for the current video.
LaterUntouched(i) ==
    \A j \in Chain : j > i => availCalls[j] = 0 /\ fetchCalls[j] = 0 /\ attempt[j] = None

\* fetchTranscript failed and the failure is on its way out of main.
Failed == pc \in {"threw", "exit"} /\ thrown.kind = "error"

\* The log entries the attempts of providers 1..k account for when only raised
\* errors are logged, in chain order.
RECURSIVE RaisedEntries(_)
RaisedEntries(k) ==
    IF k = 0
    THEN <<>>
    ELSE IF attempt[k].kind = "error"
    THEN Append(RaisedEntries(k - 1), [provider |-> providers[k].name, error |-> attempt[k]])
    ELSE RaisedEntries(k - 1)

\* C1: as soon as a provider's fetch has returned a result, fetchTranscript
\* returns that very result (main receives it) and no provider later in the
\* chain has available() or fetch() invoked for that video, whatever the chain
\* and whatever noFallback.
C1_ShortCircuit ==
    Fetching =>
        \A i \in Chain :
            attempt[i].kind = "result" =>
                /\ ret = attempt[i]
                /\ pc \in {"returned", "loop", "output", "done"}
                /\ pc # "returned" => results[vid] = [id |-> ids[vid], result |-> attempt[i]]
                /\ LaterUntouched(i)

\* C1 witness: the first provider of a three-provider chain returned a result.
C1_Witness ==
    /\ Fetching
    /\ Len(providers) = 3
    /\ attempt[1].kind = "result"
    /\ pc = "loop"

\* C2 as stated: with fallback allowed, when the first k providers each returned
\* null or raised and provider k+1 returned a result, fetchTranscript returns
\* that result and the attempt log holds exactly k entries.
C2_Original ==
    (Fetching /\ ~noFallback) =>
        \A k \in 0..(Len(providers) - 1) :
            (/\ \A i \in 1..k : attempt[i].kind \in {"null", "error"}
             /\ attempt[k + 1].kind = "result")
                => ret = attempt[k + 1] /\ Len(errors) = k

\* C2 amended: with fallback allowed, when the first k providers each returned
\* null or raised and provider k+1 returned a result, fetchTranscript returns
\* exactly that result, and the attempt log holds exactly one entry for each of
\* the k providers that raised, in chain order, and none for a provider that
\* returned null.
C2_LogOfRaised ==
    (Fetching /\ ~noFallback) =>
        \A k \in 0..(Len(providers) - 1) :
            (/\ \A i \in 1..k : attempt[i].kind \in {"null", "error"}
             /\ attempt[k + 1].kind = "result")
                => /\ ret = attempt[k + 1]
                   /\ ret.source = providers[k + 1].name
                   /\ errors = RaisedEntries(k)

\* C2 witness: of three providers the first raised, the second returned null
\* and the third returned a result; the log holds one entry.
C2_Witness ==
    /\ Fetching
    /\ ~noFallback
    /\ Len(providers) = 3
    /\ attempt[1].kind = "error"
    /\ attempt[2].kind = "null"
    /\ attempt[3].kind = "result"
    /\ Len(errors) = 1
    /\ pc = "returned"

\* The chain was exhausted: the loop ran past the last provider and the
\* aggregate error was raised.
Exhausted == Fetching /\ pc \in {"threw", "exit"} /\ idx > Len(providers)

\* C3 as stated: when the chain is exhausted the aggregate error has one entry
\* for every provider that was reached, whether it raised, returned nothing or
\* was skipped as unavailable.
C3_Original ==
    Exhausted =>
        /\ thrown.kind = "error"
        /\ Len(thrown.message) = 4
        /\ Len(thrown.message[4]) = Len(providers)
        /\ \A i \in Chain : thrown.message[4][i][1] = providers[i].name

\* C3 amended: when the chain is exhausted without a result every provider of
\* the chain was reached (skipped, returned null, or raised), and fetchTranscript
\* fails with an aggregate error that names the video and the chain's length and
\* has exactly one entry, in chain order, for every provider whose fetch raised
\* an error; a provider that returned null or whose availability check was
\* negative has no entry.
C3_AggregateOfRaised ==
    Exhausted =>
        /\ \A i \in Chain : Finished(i)
        /\ thrown.kind = "error"
        /\ thrown.message =
              <<"Failed to get transcript for video", ids[vid], Len(providers),
                [n \in 1..Len(RaisedEntries(Len(providers))) |->
                    <<RaisedEntries(Len(providers))[n].provider,
                      RaisedEntries(Len(providers))[n].error.message>>]>>

\* C3 witness: a three-provider chain was exhausted with two raised errors and
\* one provider skipped as unavailable.
C3_Witness ==
    /\ Exhausted
    /\ Len(providers) = 3
    /\ attempt[1].kind = "error"
    /\ attempt[2].kind = "error"
    /\ attempt[3].kind = "unavailable"
    /\ Len(thrown.message[4]) = 2

\* C4: with fallback disabled, a null or a raised error of the first provider
\* whose fetch is attempted makes fetchTranscript fail at once: every provider
\* before it was skipped as unavailable, no provider after it is ever invoked,
\* and at most one fetch is made for the video.
C4_NoFallbackFailsAtOnce ==
    (Fetching /\ noFallback) =>
        /\ \A i \in Chain :
              attempt[i].kind \in {"null", "error"} =>
                  /\ Failed
                  /\ idx = i
                  /\ \A j \in 1..(i - 1) : attempt[j] = Unavailable
                  /\ LaterUntouched(i)
        /\ Cardinality({i \in Chain : fetchCalls[i] > 0}) <= 1

\* C4 witness: fallback is disabled, the first of three providers returned null
\* and the run ended with exit code 1.
C4_Witness ==
    /\ Fetching
    /\ noFallback
    /\ Len(providers) = 3
    /\ attempt[1].kind = "null"
    /\ pc = "exit"
    /\ exitCode = 1

\* Execution went on from provider i to the next provider of the chain.
WentOn(i) ==
    /\ idx > i
    /\ i < Len(providers) => (idx = i + 1 /\ pc = "available") \/ availCalls[i + 1] > 0
    /\ i = Len(providers) =>
          pc = "available" \/ (Failed /\ thrown.message[1] = "Failed to get transcript for video")

\* C5: when a provider's fetch returned null, fetchTranscript fails at once with
\* the 'no transcript available' error naming that provider and the video if
\* fallback is disabled, and goes on with the next provider of the chain if
\* fallback is allowed.
C5_NullOutcome ==
    Fetching =>
        \A i \in Chain :
            attempt[i] = Null =>
                IF noFallback
                THEN /\ Failed
                     /\ thrown = NoTranscriptError(providers[i].name, ids[vid])
                     /\ idx = i
                ELSE WentOn(i)

\* C5 witness: fallback is disabled and the yt-dlp provider, second in the
\* chain after a skipped one or first, returned null.
C5_Witness ==
    /\ Fetching
    /\ noFallback
    /\ \E i \in Chain :
          /\ attempt[i] = Null
          /\ providers[i].name = "ytdlp"
          /\ thrown.kind = "error"
          /\ thrown.message = <<"ytdlp", "No transcript available for video", ids[vid]>>

\* C6: when a provider's fetch raised an error, then with fallback allowed
\* exactly one entry {provider name, that error} is in the attempt log for it
\* and execution went on with the next provider; with fallback disabled that
\* same error, not the aggregate error, is raised to the caller and no later
\* provider is invoked.
C6_ErrorOutcome ==
    Fetching =>
        \A i \in Chain :
            attempt[i].kind = "error" =>
                /\ Cardinality({n \in 1..Len(errors) : errors[n].provider = providers[i].name}) = 1
                /\ \E n \in 1..Len(errors) :
                      errors[n] = [provider |-> providers[i].name, error |-> attempt[i]]
                /\ IF noFallback
                   THEN /\ Failed
                        /\ thrown = attempt[i]
                        /\ LaterUntouched(i)
                   ELSE /\ WentOn(i)
                        /\ Len(errors) = Cardinality({j \in Chain : attempt[j].kind = "error"})

\* C6 witness: fallback is disabled and the first provider's fetch raised; its
\* own error is the one main().catch reports.
C6_Witness ==
    /\ Fetching
    /\ noFallback
    /\ Len(providers) >= 2
    /\ attempt[1].kind = "error"
    /\ pc = "exit"
    /\ stderr[Len(stderr)] = attempt[1].message

\* C7: providers are attempted strictly in chain order and one at a time: for
\* one video each provider's fetch is invoked at most once, at most one fetch is
\* in progress, and provider j's fetch is invoked only after the attempt of
\* every provider before it ended with a skip, a null or an error.
C7_ChainOrder ==
    Fetching =>
        /\ \A j \in Chain :
              /\ fetchCalls[j] <= 1
              /\ availCalls[j] <= 1
              /\ fetchCalls[j] > 0 => \A i \in 1..(j - 1) : Finished(i)
              /\ availCalls[j] > 0 => \A i \in 1..(j - 1) : Finished(i)
        /\ Cardinality({j \in Chain : attempt[j] = Pending}) <= 1

\* C7 witness: the third provider's fetch is in progress after the first
\* raised and the second returned null.
C7_Witness ==
    /\ Fetching
    /\ Len(providers) = 3
    /\ attempt[1].kind = "error"
    /\ attempt[2].kind = "null"
    /\ attempt[3] = Pending
    /\ fetchCalls[3] = 1

----------------------------------------------------------------------------
(* Properties of resolveProviders *)

\* An optional string that is undefined or holds nothing but spaces.
Blank(o) == o = <<>> \/ \A n \in 1..Len(o[1]) : o[1][n] = " "

\* Neither --token nor the environment configures a token.
NoTokenConfigured == Blank(options.token) /\ Blank(env.YOUTUBE_TRANSCRIPT_API_TOKEN)

\* The host had a speech-to-text backend when it was probed.
BackendDetectable ==
    \/ probedHost.whisperCpp
    \/ probedHost.whisper # "absent"
    \/ probedHost.mlx
    \/ env.OPENAI_API_KEY

ResolutionDone == pc # "resolve"

\* resolveProviders raised: main ends before any video is fetched.
ResolutionFailed ==
    /\ pc \in {"threw", "exit"}
    /\ vid = 0
    /\ thrown.kind = "error"
    /\ providers = <<>>
    /\ fetchCalls = <<>>
    /\ results = <<>>

ForcedMode == options.provider \notin {"auto", ""}

ChainNames == [i \in 1..Len(providers) |-> providers[i].name]

\* C8 as stated: in forced mode resolveProviders either fails or returns a chain
\* of exactly one element, the named provider; it never returns an empty chain.
C8_ForcedSingleton ==
    (ResolutionDone /\ ForcedMode) =>
        \/ ResolutionFailed
        \/ ChainNames = <<options.provider>>

\* C9: forcing a provider whose prerequisites are unmet fails at resolution,
\* before any provider's fetch is made: 'api' with no token configured, 'ytdlp'
\* without yt-dlp on the host, 'whisper' unless both yt-dlp and a backend are
\* there.
C9_ForcedUnmetFails ==
    ResolutionDone =>
        /\ (options.provider = "api" /\ NoTokenConfigured) => ResolutionFailed
        /\ (options.provider = "ytdlp" /\ ~probedHost.ytdlp) => ResolutionFailed
        /\ (options.provider = "whisper" /\ ~(probedHost.ytdlp /\ BackendDetectable))
              => ResolutionFailed

\* C9 witness: whisper was forced on a host with a backend but no yt-dlp, and
\* the run ended with exit code 1 and no fetch.
C9_Witness ==
    /\ options.provider = "whisper"
    /\ ~probedHost.ytdlp
    /\ BackendDetectable
    /\ pc = "exit"
    /\ exitCode = 1
    /\ vid = 0

\* Position of a provider name in the fixed priority order.
Rank(name) == CASE name = "api" -> 1 [] name = "ytdlp" -> 2 [] name = "whisper" -> 3

\* C10: in auto mode the chain resolveProviders returns holds the api provider
\* iff a token is configured, the yt-dlp provider iff yt-dlp is on the host, the
\* whisper provider iff yt-dlp is included and a backend is detectable; the
\* providers present are in the order api, ytdlp, whisper, each at most once.
C10_AutoChain ==
    (ResolutionDone /\ options.provider = "auto" /\ ~ResolutionFailed) =>
        /\ (\E i \in Chain : ChainNames[i] = "api") <=> ~NoTokenConfigured
        /\ (\E i \in Chain : ChainNames[i] = "ytdlp") <=> probedHost.ytdlp
        /\ (\E i \in Chain : ChainNames[i] = "whisper")
              <=> ((\E i \in Chain : ChainNames[i] = "ytdlp") /\ BackendDetectable)
        /\ \A i \in Chain : ChainNames[i] \in {"api", "ytdlp", "whisper"}
        /\ \A i, j \in Chain : i < j => Rank(ChainNames[i]) < Rank(ChainNames[j])

\* C10 witness: auto mode resolved the full chain api, ytdlp, whisper.
C10_Witness ==
    /\ ResolutionDone
    /\ options.provider = "auto"
    /\ ChainNames = <<"api", "ytdlp", "whisper">>

\* C11: in auto mode with neither an API token configured nor yt-dlp on the
\* host, resolveProviders raises "No transcript provider available" during
\* resolution: no chain exists, no provider was asked available() or fetch(),
\* no video was started, and the run ends with the error.
C11_NoProviderFails ==
    (ResolutionDone /\ options.provider = "auto" /\ NoTokenConfigured /\ ~probedHost.ytdlp) =>
        /\ ResolutionFailed
        /\ thrown = Error(<<"No transcript provider available">>)
        /\ availCalls = <<>>
        /\ fetchCalls = <<>>
        /\ vid = 0

\* C11 witness: auto mode, no token, no yt-dlp but a speech-to-text backend on
\* the host; the run has ended with the no-provider error.
C11_Witness ==
    /\ options.provider = "auto"
    /\ NoTokenConfigured
    /\ ~probedHost.ytdlp
    /\ BackendDetectable
    /\ thrown = Error(<<"No transcript provider available">>)
    /\ pc = "exit"
    /\ exitCode = 1

----------------------------------------------------------------------------
(* Properties of extractTranscriptItems *)

Extracted == fn = "extractTranscriptItems" /\ out # Pending

\* The records extractTranscriptItems returned.
items == out.value

\* A record of a list that bears a non-blank text.
TextBearing(v) ==
    /\ v.t = "object"
    /\ DOMAIN v.o = {"text"}
    /\ v.o["text"].t = "string"
    /\ Trim(v.o["text"].s) # <<>>

\* The payload is an object whose only key is a collection key holding a
\* non-empty list of text-bearing records; the list.
CollectionOfTexts ==
    /\ arg.t = "object"
    /\ \E key \in {"data", "items"} :
        /\ DOMAIN arg.o = {key}
        /\ arg.o[key].t = "array"
        /\ arg.o[key].a # <<>>
        /\ \A i \in DOMAIN arg.o[key].a : TextBearing(arg.o[key].a[i])

TheCollection == arg.o[CHOOSE key \in DOMAIN arg.o : TRUE].a

\* C14 as stated: for an object whose collection key holds a list of
\* text-bearing records, extractTranscriptItems returns exactly one record,
\* whose text is the records' texts joined with single spaces.
C14_Original ==
    (Extracted /\ CollectionOfTexts) =>
        /\ Len(items) = 1
        /\ items[1].text = JoinNonEmpty([i \in DOMAIN TheCollection |->
                                          Trim(TheCollection[i].o["text"].s)])

\* C14, amended: for an object whose collection key holds a list of
\* text-bearing records, extractTranscriptItems returns one record per record
\* of the list, in list order, each with the trimmed text of its own record:
\* "hello" and "world" for {"data": [{"text": "hello"}, {"text": "world"}]}.
C14_RecordPerEntry ==
    (Extracted /\ CollectionOfTexts) =>
        /\ Len(items) = Len(TheCollection)
        /\ \A i \in DOMAIN TheCollection :
              items[i] = TranscriptItem(<<>>, <<>>, Trim(TheCollection[i].o["text"].s))

\* C14 witness: the payload {"data": [{"text": "hello"}, {"text": "world"}]}
\* has been extracted into two records.
C14_Witness ==
    /\ Extracted
    /\ arg = JObj([data |-> JArr(<<JObj([text |-> JStr(<<"hello">>)]),
                                   JObj([text |-> JStr(<<"world">>)])>>)])
    /\ Len(items) = 2

\* Some string of the value, at any depth, is not blank.
RECURSIVE HasText(_)
HasText(v) ==
    CASE v.t = "string" -> Trim(v.s) # <<>>
      [] v.t = "array" -> \E i \in DOMAIN v.a : HasText(v.a[i])
      [] v.t = "object" -> \E key \in DOMAIN v.o : HasText(v.o[key])
      [] OTHER -> FALSE

\* C15: extractTranscriptItems always returns a sequence of records, never an
\* error; the sequence is empty for null, for {} and for every payload that
\* holds no non-blank string; for a non-blank plain string it is exactly one
\* record whose text is that string without its surrounding whitespace; and
\* every record returned has a non-empty text.
C15_NeverFails ==
    Extracted =>
        /\ items \in Seq({r \in [id : Seq(Seq(STRING)), title : Seq(Seq(STRING)), text : Seq(STRING)] : TRUE})
        /\ ~HasText(arg) => items = <<>>
        /\ (arg.t = "string" /\ Trim(arg.s) # <<>>)
              => items = <<TranscriptItem(<<>>, <<>>, Trim(arg.s))>>
        /\ \A i \in DOMAIN items : items[i].text # <<>>

\* C15 witness: a padded plain string has been extracted into one record.
C15_Witness ==
    /\ Extracted
    /\ arg = JStr(<<" ", "plain", " ", "string", " ">>)
    /\ items = <<TranscriptItem(<<>>, <<>>, <<"plain", " ", "string">>)>>

----------------------------------------------------------------------------
(* Properties of the subtitle parsers *)

Parsed == fn = "parseSubtitle" /\ out # Pending

\* The lines of text of the cues, cleaned, in document order, without the
\* lines that clean to nothing.  A cue of the XML format is one line.
RECURSIVE CleanedLines(_, _)
CleanedLines(format, cues) ==
    IF cues = <<>> THEN <<>>
    ELSE LET raw == IF format = "ttml" THEN <<Head(cues)>> ELSE splitLines(Head(cues))
             cleaned == [i \in DOMAIN raw |-> cleanSubtitleLine(raw[i])]
         IN SelectSeq(cleaned, LAMBDA l : l # <<>>) \o CleanedLines(format, Tail(cues))

\* The first occurrences of the elements of a sequence, in order.
RECURSIVE FirstSeen(_)
FirstSeen(ls) ==
    IF ls = <<>> THEN <<>>
    ELSE LET front == SubSeq(ls, 1, Len(ls) - 1)
             last == ls[Len(ls)]
         IN IF \E i \in DOMAIN front : front[i] = last
            THEN FirstSeen(front)
            ELSE Append(FirstSeen(front), last)

\* C16: the output of parseVtt, parseSrt and parseTtml is the distinct cleaned
\* lines of the whole document, each once, in the order of their first
\* occurrence, joined by spaces: a line is dropped when it was seen in any
\* earlier cue, next to it or not.
C16_DedupWholeDocument ==
    Parsed => out.value = joinLines(FirstSeen(CleanedLines(arg.format, arg.cues)))

\* C16 witness: a WebVTT document whose five consecutive cues all carry the
\* line "a" has been parsed to that one line.
C16_Witness ==
    /\ Parsed
    /\ arg.format = "vtt"
    /\ arg.cues = [i \in 1..5 |-> <<"a">>]
    /\ out.value = <<"a">>

\* C17: parsing the output of parseVtt or parseSrt again returns it
\* unchanged: parse(parse(d)) = parse(d) for every document d.
C17_Idempotent ==
    (Parsed /\ arg.format \in {"vtt", "srt"}) =>
        parseSubtitle(arg.format, out.value) = out.value

----------------------------------------------------------------------------
(* Properties of extractVideoId *)

IdExtracted == fn = "extractVideoId" /\ out # Pending

\* 11 characters, each of [A-Za-z0-9_-]: the candidates that are valid ids.
ValidIds == {<<"dQw4w9", "WgXcQ">>, <<"_-", "dQw4w9", "_-", "v">>}

\* Candidates whose length is not 11.
WrongLengthIds == {<<"dQw4w9", "live">>, <<"dQw4w9", "WgXcQ", "v">>}

\* C18: for a valid 11-character id given raw or in a well-formed URL of a
\* supported shape (watch?v=, youtu.be/, /embed/, /shorts/, /live/)
\* extractVideoId returns exactly that id; for a malformed URL and for an id
\* whose length is not 11 it returns null.
C18_ExtractVideoId ==
    IdExtracted =>
        /\ (arg.id \in ValidIds /\ ~arg.malformed) => out.value = <<arg.id>>
        /\ arg.malformed => out.value = <<>>
        /\ arg.id \in WrongLengthIds => out.value = <<>>

\* C18 witness: the id of a padded /shorts/ URL on m.youtube.com has been
\* extracted.
C18_Witness ==
    /\ IdExtracted
    /\ arg.input = <<" ", "https://", "m.", "youtube.com", "/", "shorts", "/",
                     "_-", "dQw4w9", "_-", "v", "/", " ">>
    /\ out.value = <<<<"_-", "dQw4w9", "_-", "v">>>>

----------------------------------------------------------------------------
(* Properties of the availability checks *)

\* The step of fetchTranscript in which available() of the provider at idx
\* is awaited.
AvailabilityChecked ==
    /\ pc = "available"
    /\ idx <= Len(providers)
    /\ availCalls' = [availCalls EXCEPT ![idx] = @ + 1]

\* C19: fetchTranscript asks each provider for its availability as the host is
\* at that moment, not as it was at resolution.  When the answer is negative
\* the provider is skipped silently, with fallback allowed or disabled: its
\* fetch is not invoked, the attempt log and stderr stay as they are, nothing
\* is returned or raised, and the loop is at the next provider.  When the
\* answer is positive its fetch is invoked.
C19_SilentSkip ==
    [][AvailabilityChecked =>
          IF available(providers[idx], host, env)
          THEN /\ fetchCalls' = [fetchCalls EXCEPT ![idx] = @ + 1]
               /\ pc' = "fetching"
          ELSE /\ fetchCalls' = fetchCalls
               /\ errors' = errors
               /\ stderr' = stderr
               /\ ret' = ret
               /\ thrown' = thrown
               /\ idx' = idx + 1
               /\ pc' = "available"]_vars

\* C19 witness: with fallback disabled, the forced yt-dlp provider, resolved
\* while yt-dlp was installed, has been skipped after yt-dlp was removed:
\* never fetched, nothing logged, and the loop has moved past it.
C19_Witness ==
    /\ Fetching
    /\ noFallback
    /\ options.provider = "ytdlp"
    /\ probedHost.ytdlp
    /\ ~host.ytdlp
    /\ attempt = <<Unavailable>>
    /\ fetchCalls = <<0>>
    /\ errors = <<>>
    /\ idx = 2
    /\ pc = "available"

----------------------------------------------------------------------------
(* Properties of detectWhisper *)

----------------------------------------------------------------------------
(* Properties of the providers' fetch *)

FetchSettled == fpc = "settled"

\* The text the provider had in hand was empty or only white space.
BlankText ==
    /\ rawText # None
    /\ IF self.name = "api" THEN ~HasText(rawText.value) ELSE Trim(rawText.value) = <<>>

\* C12: a TranscriptResult that a provider's fetch settles with has a
\* non-empty text and carries the name of that provider, one of api, ytdlp,
\* whisper, as its source; when the text the provider obtained is empty or
\* only white space, fetch settles with null instead.
C12_ResultShape ==
    FetchSettled =>
        /\ settled.kind = "result" =>
              /\ settled.text # <<>>
              /\ settled.source = self.name
              /\ settled.source \in {"api", "ytdlp", "whisper"}
        /\ BlankText => settled = Null

\* C12 witness: the whisper provider read a padded text and has settled with
\* the trimmed text under its own name.
C12_Witness ==
    /\ FetchSettled
    /\ self.name = "whisper"
    /\ rawText = Returned(<<" ", "hello", " ", "world", "\n">>)
    /\ settled = TranscriptResult(<<"hello", " ", "world">>, "whisper")

----------------------------------------------------------------------------
(* Properties of the speech-to-text backend of a run *)

\* Every WhisperProvider of the chain holds the backend resolveProviders detected.
HoldsResolvedBackend ==
    \A i \in 1..Len(providers) :
        providers[i].name = "whisper" =>
            /\ providers[i].backend = resolved.whisperBackend
            /\ providers[i].backend # NoBackend

\* C21, as stated: the backend is detected once, by resolveProviders, and never
\* again while videos are fetched; every WhisperProvider transcribes with the
\* backend detected then.
C21_Original ==
    /\ detectCalls <= 1
    /\ HoldsResolvedBackend

\* C21, amended: the backend a WhisperProvider transcribes with is, for every
\* video of the run, the one resolveProviders detected, and neither it nor the
\* chain changes once resolved.  Detection itself runs once in resolveProviders
\* and once more in every available() of a WhisperProvider that has found
\* yt-dlp, where only the presence of a backend is looked at.
C21_ResolvedOnce ==
    /\ []HoldsResolvedBackend
    /\ [][/\ pc # "resolve" => providers' = providers /\ resolved' = resolved
          /\ detectCalls' # detectCalls =>
                /\ detectCalls' = detectCalls + 1
                /\ \/ pc = "resolve"
                   \/ /\ pc = "available"
                      /\ providers[idx].name = "whisper"
                      /\ hasYtdlp(host)]_vars

\* The second video is being transcribed by the WhisperProvider, detection has
\* run for each video again, and the host now offers another backend than the
\* one the provider holds.
C21_Witness ==
    /\ pc = "fetching"
    /\ vid = 2
    /\ providers[idx].name = "whisper"
    /\ detectCalls = 3
    /\ detectWhisper(host, env) \notin {NoBackend, providers[idx].backend}
    /\ HoldsResolvedBackend

----------------------------------------------------------------------------
(* Properties of a batch run *)

\* fetchTranscript has failed for the video at hand.
VideoFailed == Fetching /\ Failed

\* The videos fetched so far are the first ones of the input, in input order.
InInputOrder ==
    /\ vid \in 0..Len(ids)
    /\ Len(results) \in {n \in {vid - 1, vid} : n >= 0}
    /\ \A i \in 1..Len(results) : results[i].id = ids[i]

\* C22: the videos are fetched one after another in input order; once
\* fetchTranscript has failed for a video, no later video is fetched, nothing is
\* written as output, not even for the videos fetched before, and the run ends
\* with exit code 1: the handler of main().catch is ready to run, it is the only
\* step left, and it sets the exit code.
C22_AllOrNothing ==
    /\ [](/\ InInputOrder
          /\ VideoFailed => stdout = <<>>
          /\ VideoFailed /\ pc = "threw" => ENABLED main_catch
          /\ VideoFailed /\ pc = "exit" => exitCode = 1
          /\ stdout # <<>> => Len(results) = Len(ids) /\ exitCode = 0)
    /\ [][VideoFailed =>
            /\ vid' = vid
            /\ availCalls' = availCalls
            /\ fetchCalls' = fetchCalls
            /\ results' = results
            /\ stdout' = stdout
            /\ pc' = "exit"
            /\ exitCode' = 1]_vars

\* The second video has failed after the first was fetched: the run has ended
\* with exit code 1 and the first video's transcript was not written.
C22_Witness ==
    /\ pc = "exit"
    /\ VideoFailed
    /\ vid = 2
    /\ Len(results) = 1
    /\ exitCode = 1
    /\ stdout = <<>>

----------------------------------------------------------------------------
(* Properties of ApiProvider.fetch *)

\* ApiProvider.fetch has settled after the API answered with a payload.
ApiAnswered == FetchSettled /\ self.name = "api" /\ rawText.kind = "returned"

\* The records extractTranscriptItems returns for the payload received.
ApiItems == extractTranscriptItems(rawText.value)

\* C23: ApiProvider.fetch returns null when extractTranscriptItems returns no
\* record; otherwise its result carries exactly the text of the first record,
\* whatever the later records hold.
C23_FirstRecordOnly ==
    ApiAnswered =>
        IF ApiItems = <<>>
        THEN settled = Null
        ELSE settled = TranscriptResult(ApiItems[1].text, "api")

\* The payload held two records with different texts and the result carries
\* the first one's.
C23_Witness ==
    /\ ApiAnswered
    /\ Len(ApiItems) > 1
    /\ ApiItems[2].text # ApiItems[1].text
    /\ settled.kind = "result"
    /\ settled.text = ApiItems[1].text

====
